---------------------------- MODULE Spec2Model ----------------------------
(***************************************************************************)
(* Model of the password-store configuration source of the B2C CLI plugin. *)
(*                                                                         *)
(*   src/src/sources/pass.ts         isPassAvailable, getEntry,            *)
(*                                   parsePassEntry, getConfigFromPass,    *)
(*                                   escapeShellArg                        *)
(*   src/src/sources/pass-source.ts  FIELD_MAP, PassSource.load,           *)
(*                                   loadEntry, loadMrtConfig,             *)
(*                                   mapToNormalizedConfig                 *)
(*                                                                         *)
(* JavaScript strings are TLA+ strings, handled character by character     *)
(* (Len, SubSeq, \o).  A JavaScript value that may be undefined is a       *)
(* sequence of length 0 (undefined) or 1 (the value).  A JavaScript object *)
(* with string keys in insertion order (the parsed entry) is a sequence of *)
(* <<key, value>> pairs; a NormalizedConfig is a function from the keys it *)
(* owns to their values.                                                   *)
(*                                                                         *)
(* Three specifications share the variables:                               *)
(*   Spec       PassSource.load as a sequence of `pass show` calls         *)
(*   SpecParse  parsePassEntry followed by mapToNormalizedConfig           *)
(*   SpecShell  escapeShellArg and the command line getEntry hands to sh   *)
(***************************************************************************)
EXTENDS Integers, Sequences, FiniteSets, TLC

VARIABLES
  \* ---- PassSource.load (Spec)
  pc,             \* position inside load()
  whichExit,      \* exit status of `which pass` on this machine
  envPrefix,      \* process.env.SFCC_PASS_PREFIX     (optional string)
  envInstance,    \* process.env.SFCC_PASS_INSTANCE   (optional string)
  options,        \* ResolveConfigOptions: instance, accountManagerHost, cloudOrigin
  fetched,        \* paths handed to `pass show`, in call order
  responses,      \* what each of those calls produced (exit status, stdout)
  returned,       \* what loadEntry returned for each of those calls
  locationParts,  \* load()'s locationParts array
  baseDefault,    \* load()'s locals: optional NormalizedConfig each
  hostDefault,
  instanceConfig,
  mrtConfig,
  result,         \* load()'s return value: optional [config, location]
  \* ---- parsePassEntry / mapToNormalizedConfig (SpecParse)
  ppc,            \* "start" -> "parsed" -> "mapped"
  content,        \* raw entry text
  parsed,         \* ParsedPassEntry
  config,         \* NormalizedConfig mapped from parsed
  \* ---- escapeShellArg / getEntry (SpecShell)
  spc,            \* "start" -> "escaped" -> "built" -> "run"
  arg,            \* the path given to getEntry
  escaped,        \* escapeShellArg(arg)
  command,        \* the command string given to execSync
  argv            \* the words sh makes of the command

loadVars  == <<pc, whichExit, envPrefix, envInstance, options, fetched, responses,
               returned, locationParts, baseDefault, hostDefault, instanceConfig,
               mrtConfig, result>>
parseVars == <<ppc, content, parsed, config>>
shellVars == <<spc, arg, escaped, command, argv>>
vars      == <<loadVars, parseVars, shellVars>>

-----------------------------------------------------------------------------
(* Optional values                                                         *)

Undefined == <<>>
Some(v)   == <<v>>
IsDefined(o) == o # <<>>
Get(o)    == o[1]

\* The variables of the specifications that are not running.
LoadIdle ==
  /\ pc = "idle"
  /\ whichExit = 0
  /\ envPrefix = Undefined
  /\ envInstance = Undefined
  /\ options = <<>>
  /\ fetched = <<>>
  /\ responses = <<>>
  /\ returned = <<>>
  /\ locationParts = <<>>
  /\ baseDefault = Undefined
  /\ hostDefault = Undefined
  /\ instanceConfig = Undefined
  /\ mrtConfig = Undefined
  /\ result = Undefined

ParseIdle ==
  /\ ppc = "idle"
  /\ content = ""
  /\ parsed = <<>>
  /\ config = <<>>

ShellIdle ==
  /\ spc = "idle"
  /\ arg = ""
  /\ escaped = ""
  /\ command = ""
  /\ argv = <<>>

-----------------------------------------------------------------------------
(* JavaScript string primitives used by the code                           *)

CharAt(s, i) == SubSeq(s, i, i)

\* String.prototype.trim strips these (the white space and line terminators
\* that can occur in the inputs of this model).
WhiteSpace == {" ", "\t", "\r", "\n", "\f"}

RECURSIVE TrimStart(_)
TrimStart(s) ==
  IF Len(s) > 0 /\ CharAt(s, 1) \in WhiteSpace
  THEN TrimStart(SubSeq(s, 2, Len(s)))
  ELSE s

RECURSIVE TrimEnd(_)
TrimEnd(s) ==
  IF Len(s) > 0 /\ CharAt(s, Len(s)) \in WhiteSpace
  THEN TrimEnd(SubSeq(s, 1, Len(s) - 1))
  ELSE s

Trim(s) == TrimEnd(TrimStart(s))

\* String.prototype.indexOf for a one-character needle: 0-based, -1 if absent.
RECURSIVE IndexFrom(_, _, _)
IndexFrom(s, c, i) ==
  IF i > Len(s) THEN -1
  ELSE IF CharAt(s, i) = c THEN i - 1
  ELSE IndexFrom(s, c, i + 1)

IndexOf(s, c) == IndexFrom(s, c, 1)

\* s.slice(from, to) and s.slice(from), 0-based, for 0 <= from, to <= length.
Slice(s, from, to) == SubSeq(s, from + 1, to)
SliceFrom(s, from) == SubSeq(s, from + 1, Len(s))

\* s.split(sep) for a one-character separator: never empty, [""] for "".
RECURSIVE Split(_, _)
Split(s, sep) ==
  LET i == IndexOf(s, sep) IN
  IF i < 0 THEN <<s>>
  ELSE <<Slice(s, 0, i)>> \o Split(SliceFrom(s, i + 1), sep)

UpperCase == "ABCDEFGHIJKLMNOPQRSTUVWXYZ"
LowerCase == "abcdefghijklmnopqrstuvwxyz"

LowerChar(c) ==
  LET i == IndexOf(UpperCase, c) IN
  IF i >= 0 THEN CharAt(LowerCase, i + 1) ELSE c

RECURSIVE ToLowerCase(_)
ToLowerCase(s) ==
  IF Len(s) = 0 THEN ""
  ELSE LowerChar(CharAt(s, 1)) \o ToLowerCase(SubSeq(s, 2, Len(s)))

\* parts.join(sep)
RECURSIVE Join(_, _)
Join(parts, sep) ==
  IF Len(parts) = 0 THEN ""
  ELSE IF Len(parts) = 1 THEN parts[1]
  ELSE parts[1] \o sep \o Join(Tail(parts), sep)

\* s.replace(/c/g, by) for a one-character pattern.
RECURSIVE ReplaceAll(_, _, _)
ReplaceAll(s, c, by) ==
  IF Len(s) = 0 THEN ""
  ELSE (IF CharAt(s, 1) = c THEN by ELSE CharAt(s, 1))
         \o ReplaceAll(SubSeq(s, 2, Len(s)), c, by)

-----------------------------------------------------------------------------
(* A JavaScript object created by {} with string keys, as the sequence of  *)
(* its own <<key, value>> pairs in insertion order.  (The order            *)
(* Object.entries yields differs only for array-index keys such as "12",   *)
(* which no FIELD_MAP key is.)                                             *)

EmptyObject == <<>>

HasOwn(obj, k) == \E i \in 1..Len(obj) : obj[i][1] = k

OwnValue(obj, k) == obj[CHOOSE i \in 1..Len(obj) : obj[i][1] = k][2]

\* obj[k] = v for a string v.  An existing key keeps its place; the key
\* "__proto__" reaches Object.prototype's setter, which ignores a string.
ObjSet(obj, k, v) ==
  IF k = "__proto__" THEN obj
  ELSE IF HasOwn(obj, k)
  THEN [i \in 1..Len(obj) |-> IF obj[i][1] = k THEN <<k, v>> ELSE obj[i]]
  ELSE Append(obj, <<k, v>>)

-----------------------------------------------------------------------------
(* src/src/sources/pass.ts                                                 *)

\* One iteration of parsePassEntry's loop body on `line`;
\* st = [result, foundPassword].
ParseLine(st, line) ==
  LET trimmed == Trim(line) IN
  IF ~st.foundPassword
  THEN IF trimmed # ""
       THEN [result |-> ObjSet(st.result, "_password", trimmed),
             foundPassword |-> TRUE]
       ELSE st
  ELSE LET colonIndex == IndexOf(trimmed, ":") IN
       IF colonIndex > 0
       THEN LET key   == Trim(Slice(trimmed, 0, colonIndex))
                value == Trim(SliceFrom(trimmed, colonIndex + 1))
            IN IF key # "" /\ value # ""
               THEN [st EXCEPT !.result = ObjSet(st.result, key, value)]
               ELSE st
       ELSE st

RECURSIVE ParseLines(_, _)
ParseLines(st, lines) ==
  IF Len(lines) = 0 THEN st
  ELSE ParseLines(ParseLine(st, Head(lines)), Tail(lines))

parsePassEntry(c) ==
  ParseLines([result |-> EmptyObject, foundPassword |-> FALSE],
             Split(c, "\n")).result

\* getConfigFromPass on what getEntry returned (an optional string): an
\* undefined result and an empty one are both `!content`.
getConfigFromPass(entryText) ==
  IF ~IsDefined(entryText) \/ Get(entryText) = "" THEN Undefined
  ELSE Some(parsePassEntry(Get(entryText)))

\* A plausible slip: the path is put between the quotes as it is.
NoEscape(a) == a

\* escapeShellArg: ' -> '\''
escapeShellArg(a) == ReplaceAll(a, "'", "'\\''")

\* The command string getEntry gives to execSync: `pass show '${escaped}'`
PassShowCommand(esc) == "pass show '" \o esc \o "'"

\* What sh (execSync runs the string with sh -c) makes of a command line
\* over letters, blanks, ;, \ and ': the list of simple commands, each a
\* list of words, or undefined for a syntax error (a quote left open).
\* Outside quotes a blank ends a word, ; ends a command, \ makes the next
\* character literal and ' opens a quotation; inside single quotes every
\* character up to the closing ' is literal.
\* st = [cmds, words, word, inWord, quoted]
RECURSIVE ShellScan(_, _, _)
ShellScan(line, i, st) ==
  LET endWord(t) == IF t.inWord
                    THEN [t EXCEPT !.words = Append(t.words, t.word),
                                   !.word = "", !.inWord = FALSE]
                    ELSE t
      endCmd(t)  == LET u == endWord(t) IN
                    IF Len(u.words) > 0
                    THEN [u EXCEPT !.cmds = Append(u.cmds, u.words),
                                   !.words = <<>>]
                    ELSE u
      put(t, c)  == [t EXCEPT !.word = t.word \o c, !.inWord = TRUE]
      c == CharAt(line, i)
  IN
  IF i > Len(line)
  THEN IF st.quoted THEN Undefined ELSE Some(endCmd(st).cmds)
  ELSE IF st.quoted
  THEN IF c = "'" THEN ShellScan(line, i + 1, [st EXCEPT !.quoted = FALSE])
       ELSE ShellScan(line, i + 1, put(st, c))
  ELSE IF c = "'"
       THEN ShellScan(line, i + 1, [st EXCEPT !.quoted = TRUE, !.inWord = TRUE])
  ELSE IF c = "\\"
       THEN IF i = Len(line) THEN ShellScan(line, i + 1, put(st, c))
            ELSE ShellScan(line, i + 2, put(st, CharAt(line, i + 1)))
  ELSE IF c = " " THEN ShellScan(line, i + 1, endWord(st))
  ELSE IF c = ";" THEN ShellScan(line, i + 1, endCmd(st))
  ELSE ShellScan(line, i + 1, put(st, c))

ShellCommands(line) ==
  ShellScan(line, 1, [cmds |-> <<>>, words |-> <<>>, word |-> "",
                      inWord |-> FALSE, quoted |-> FALSE])

-----------------------------------------------------------------------------
(* src/src/sources/pass-source.ts                                          *)

DEFAULT_PREFIX == "b2c-cli"
DEFAULT_ENTRY  == "_default"
MOBIFY_ENTRY   == "_mobify"

FIELD_MAP ==
  [k \in {"username", "password", "hostname", "webdav-hostname",
          "code-version", "client-id", "client-secret", "scopes",
          "short-code", "account-manager-host", "mrt-project",
          "mrt-environment", "mrt-api-key", "mrt-origin"} |->
     CASE k = "username"             -> "username"
       [] k = "password"             -> "password"
       [] k = "hostname"             -> "hostname"
       [] k = "webdav-hostname"      -> "webdavHostname"
       [] k = "code-version"         -> "codeVersion"
       [] k = "client-id"            -> "clientId"
       [] k = "client-secret"        -> "clientSecret"
       [] k = "scopes"               -> "scopes"
       [] k = "short-code"           -> "shortCode"
       [] k = "account-manager-host" -> "accountManagerHost"
       [] k = "mrt-project"          -> "mrtProject"
       [] k = "mrt-environment"      -> "mrtEnvironment"
       [] k = "mrt-api-key"          -> "mrtApiKey"
       [] k = "mrt-origin"           -> "mrtOrigin"]

\* The fields of the NormalizedConfig interface.
NormalizedConfigFields ==
  {"hostname", "webdavHostname", "codeVersion", "username", "password",
   "clientId", "clientSecret", "scopes", "shortCode", "mrtProject",
   "mrtEnvironment", "mrtApiKey", "mrtOrigin", "accountManagerHost"}

\* The expression FIELD_MAP[normalizedKey], as the property key it is then
\* used as (optional: undefined is falsy, everything else here is truthy).
\* FIELD_MAP is an object literal, so a key it does not own is looked up on
\* Object.prototype: of the names that survive toLowerCase, "constructor"
\* yields the function Object and "__proto__" yields Object.prototype;
\* used as a property key each is converted to the string shown.
FieldMapLookup(normalizedKey) ==
  IF normalizedKey \in DOMAIN FIELD_MAP THEN Some(FIELD_MAP[normalizedKey])
  ELSE IF normalizedKey = "constructor"
       THEN Some("function Object() { [native code] }")
  ELSE IF normalizedKey = "__proto__" THEN Some("[object Object]")
  ELSE Undefined

EmptyConfig == [k \in {} |-> ""]

ConfigSet(cfg, k, v) ==
  [x \in (DOMAIN cfg) \cup {k} |-> IF x = k THEN v ELSE cfg[x]]

\* value.split(',').map(s => s.trim()).filter(Boolean)
ParseScopes(value) ==
  LET parts   == Split(value, ",")
      trimmed == [i \in 1..Len(parts) |-> Trim(parts[i])]
  IN SelectSeq(trimmed, LAMBDA s : s # "")

\* One iteration of mapToNormalizedConfig's loop on the entry <<key, value>>.
MapField(cfg, key, value) ==
  IF key = "_password" THEN cfg
  ELSE LET configKey == FieldMapLookup(ToLowerCase(key)) IN
       IF IsDefined(configKey)
       THEN IF Get(configKey) = "scopes"
            THEN ConfigSet(cfg, "scopes", ParseScopes(value))
            ELSE ConfigSet(cfg, Get(configKey), value)
       ELSE cfg

RECURSIVE MapFields(_, _)
MapFields(cfg, entries) ==
  IF Len(entries) = 0 THEN cfg
  ELSE MapFields(MapField(cfg, Head(entries)[1], Head(entries)[2]),
                 Tail(entries))

mapToNormalizedConfig(entry) ==
  LET first == IF HasOwn(entry, "_password") /\ OwnValue(entry, "_password") # ""
               THEN ConfigSet(EmptyConfig, "password", OwnValue(entry, "_password"))
               ELSE EmptyConfig
  IN MapFields(first, entry)


\* JavaScript truthiness of an optional string: neither undefined nor "".
Truthy(o) == IsDefined(o) /\ Get(o) # ""

\* a ?? b
Coalesce(a, b) == IF IsDefined(a) THEN a ELSE b

\* A plausible slip: the availability check always succeeds.
AssumeAvailable(exit) == TRUE

\* isPassAvailable: execSync('which pass') throws on a non-zero exit.
isPassAvailable(exit) == exit = 0

\* getEntry on the outcome of `pass show`: stdout, or undefined when the
\* command exits non-zero (execSync throws).
getEntry(outcome) ==
  IF outcome.exit = 0 THEN Some(outcome.stdout) ELSE Undefined

\* new URL(s).hostname, undefined where the constructor throws: for strings
\* without a scheme (invalid without a base) and for absolute URLs
\* scheme://host[:port][/path], whose host is lowercased.
RECURSIVE HostEnd(_, _)
HostEnd(a, i) ==
  IF i > Len(a) \/ CharAt(a, i) \in {":", "/", "?", "#"} THEN i - 1
  ELSE HostEnd(a, i + 1)

IsLetter(c) == IndexOf(LowerCase, LowerChar(c)) >= 0

UrlHostname(s) ==
  LET i == IndexOf(s, ":") IN
  IF i <= 0 \/ \E j \in 1..i : ~IsLetter(CharAt(s, j))
  THEN Undefined
  ELSE IF Slice(s, i + 1, i + 3) # "//" THEN Undefined
  ELSE LET authority == SliceFrom(s, i + 3)
           host      == Slice(authority, 0, HostEnd(authority, 1))
       IN IF host = "" THEN Undefined ELSE Some(ToLowerCase(host))

\* constructor: this.prefix = process.env[ENV_PREFIX] ?? DEFAULT_PREFIX
Prefix == Get(Coalesce(envPrefix, Some(DEFAULT_PREFIX)))

\* A plausible slip: || in place of ??, so that an empty option falls
\* through to the environment.
InstanceOrEnv(opts, env) ==
  IF Truthy(opts.instance) THEN opts.instance ELSE env

\* load, step 3: options.instance ?? process.env[ENV_INSTANCE]
ChosenInstance(opts, env) == Coalesce(opts.instance, env)

\* A plausible slip: a test against undefined in place of truthiness.
HostDefined(opts) == IsDefined(opts.accountManagerHost)

\* load, step 2: if (options.accountManagerHost)
HostGiven(opts) == Truthy(opts.accountManagerHost)

\* loadEntry's return value for the outcome of its `pass show`
LoadedConfig(outcome) ==
  LET entry == getConfigFromPass(getEntry(outcome)) IN
  IF IsDefined(entry) THEN Some(mapToNormalizedConfig(Get(entry)))
  ELSE Undefined

\* loadEntry's effect on locationParts
LocationAfter(parts, path, outcome) ==
  IF IsDefined(getConfigFromPass(getEntry(outcome)))
  THEN Append(parts, "pass:" \o path)
  ELSE parts

\* {...a, ...b} for optional configs a and b (spreading undefined adds nothing)
Spread(a, b) ==
  LET fa == IF IsDefined(a) THEN Get(a) ELSE EmptyConfig
      fb == IF IsDefined(b) THEN Get(b) ELSE EmptyConfig
  IN Some([k \in (DOMAIN fa) \cup (DOMAIN fb) |->
             IF k \in DOMAIN fb THEN fb[k] ELSE fa[k]])

\* A plausible slip: the MRT layer spread last, over the instance's values.
MergeMrtLast(base, host, mrt, inst) ==
  Get(Spread(Spread(Spread(base, host), inst), mrt))

\* load, step 5: {...baseDefault, ...hostDefault, ...mrtConfig, ...instanceConfig}
MergeConfigs(base, host, mrt, inst) ==
  Get(Spread(Spread(Spread(base, host), mrt), inst))

\* A plausible slip: a result is built even when nothing was loaded.
NeverEmpty(parts) == FALSE

\* load: if (locationParts.length === 0) return undefined
NoConfigLoaded(parts) == Len(parts) = 0

\* A plausible slip: the base entry is loaded whatever the specific lookup gave.
AlwaysFallBack(hostSpecific) == TRUE

\* loadMrtConfig: if (hostSpecific) return hostSpecific, else fall through
FallsBackToBase(hostSpecific) == ~IsDefined(hostSpecific)

-----------------------------------------------------------------------------
(* Spec: one call of PassSource.load, one step per external command        *)

\* What `pass show` can print for an entry that exists.
StoredTexts ==
  {"", "\n",
   "pwA\nusername: uA\nclient-id: cA",
   "\nclient-id: cB\nmrt-api-key: kB"}

PassShowOutcomes ==
  {[exit |-> 1, stdout |-> ""]}
    \cup {[exit |-> 0, stdout |-> t] : t \in StoredTexts}

InstanceOptions    == {Undefined, Some(""), Some("staging")}
HostOptions        == {Undefined, Some(""), Some("account.example.com")}
CloudOriginOptions == {Undefined, Some(""), Some("runtime.example.com"),
                       Some("https://Cloud.Example.com:8443/api")}
EnvInstances       == {Undefined, Some(""), Some("prod")}
EnvPrefixes        == {Undefined, Some("team")}

Init ==
  /\ pc = "start"
  /\ whichExit \in {0, 1}
  /\ envPrefix \in EnvPrefixes
  /\ envInstance \in EnvInstances
  /\ options \in [instance : InstanceOptions,
                  accountManagerHost : HostOptions,
                  cloudOrigin : CloudOriginOptions]
  /\ fetched = <<>>
  /\ responses = <<>>
  /\ returned = <<>>
  /\ locationParts = <<>>
  /\ baseDefault = Undefined
  /\ hostDefault = Undefined
  /\ instanceConfig = Undefined
  /\ mrtConfig = Undefined
  /\ result = Undefined
  /\ ParseIdle
  /\ ShellIdle

\* this.loadEntry(path, locationParts) with `pass show` answering `outcome`
LoadEntry(path, outcome) ==
  /\ fetched' = Append(fetched, path)
  /\ responses' = Append(responses, outcome)
  /\ returned' = Append(returned, LoadedConfig(outcome))
  /\ locationParts' = LocationAfter(locationParts, path, outcome)

NoFetch == UNCHANGED <<fetched, responses, returned, locationParts>>

CheckAvailable ==
  /\ pc = "start"
  /\ IF isPassAvailable(whichExit)
     THEN pc' = "baseDefault"
     ELSE pc' = "done"
  /\ UNCHANGED <<whichExit, envPrefix, envInstance, options, fetched,
                 responses, returned, locationParts, baseDefault, hostDefault,
                 instanceConfig, mrtConfig, result, parseVars, shellVars>>

LoadBaseDefault ==
  /\ pc = "baseDefault"
  /\ \E outcome \in PassShowOutcomes :
       /\ LoadEntry(Prefix \o "/" \o DEFAULT_ENTRY, outcome)
       /\ baseDefault' = LoadedConfig(outcome)
  /\ pc' = "hostDefault"
  /\ UNCHANGED <<whichExit, envPrefix, envInstance, options, hostDefault,
                 instanceConfig, mrtConfig, result, parseVars, shellVars>>

LoadHostDefault ==
  /\ pc = "hostDefault"
  /\ IF HostGiven(options)
     THEN \E outcome \in PassShowOutcomes :
            /\ LoadEntry(Prefix \o "/" \o DEFAULT_ENTRY \o "/"
                           \o Get(options.accountManagerHost), outcome)
            /\ hostDefault' = LoadedConfig(outcome)
     ELSE NoFetch /\ hostDefault' = Undefined
  /\ pc' = "instance"
  /\ UNCHANGED <<whichExit, envPrefix, envInstance, options, baseDefault,
                 instanceConfig, mrtConfig, result, parseVars, shellVars>>

LoadInstance ==
  /\ pc = "instance"
  /\ LET instance == ChosenInstance(options, envInstance) IN
     IF Truthy(instance)
     THEN \E outcome \in PassShowOutcomes :
            /\ LoadEntry(Prefix \o "/" \o Get(instance), outcome)
            /\ instanceConfig' = LoadedConfig(outcome)
     ELSE NoFetch /\ instanceConfig' = Undefined
  /\ pc' = "mrtSpecific"
  /\ UNCHANGED <<whichExit, envPrefix, envInstance, options, baseDefault,
                 hostDefault, mrtConfig, result, parseVars, shellVars>>

\* loadMrtConfig, up to the return of the cloud-origin-specific entry
LoadMrtSpecific ==
  /\ pc = "mrtSpecific"
  /\ IF /\ Truthy(options.cloudOrigin)
        /\ IsDefined(UrlHostname(Get(options.cloudOrigin)))
     THEN \E outcome \in PassShowOutcomes :
            /\ LoadEntry(Prefix \o "/" \o MOBIFY_ENTRY \o "/"
                           \o Get(UrlHostname(Get(options.cloudOrigin))),
                         outcome)
            /\ IF FallsBackToBase(LoadedConfig(outcome))
               THEN pc' = "mrtBase" /\ mrtConfig' = Undefined
               ELSE pc' = "merge" /\ mrtConfig' = LoadedConfig(outcome)
     ELSE NoFetch /\ pc' = "mrtBase" /\ mrtConfig' = Undefined
  /\ UNCHANGED <<whichExit, envPrefix, envInstance, options, baseDefault,
                 hostDefault, instanceConfig, result, parseVars, shellVars>>

\* loadMrtConfig, the fall-back to the base _mobify entry
LoadMrtBase ==
  /\ pc = "mrtBase"
  /\ \E outcome \in PassShowOutcomes :
       /\ LoadEntry(Prefix \o "/" \o MOBIFY_ENTRY, outcome)
       /\ mrtConfig' = LoadedConfig(outcome)
  /\ pc' = "merge"
  /\ UNCHANGED <<whichExit, envPrefix, envInstance, options, baseDefault,
                 hostDefault, instanceConfig, result, parseVars, shellVars>>

\* load, from the locationParts test to the return
Return ==
  /\ pc = "merge"
  /\ result' =
       IF NoConfigLoaded(locationParts) THEN Undefined
       ELSE Some([config   |-> MergeConfigs(baseDefault, hostDefault,
                                            mrtConfig, instanceConfig),
                  location |-> Join(locationParts, ",")])
  /\ pc' = "done"
  /\ UNCHANGED <<whichExit, envPrefix, envInstance, options, fetched,
                 responses, returned, locationParts, baseDefault, hostDefault,
                 instanceConfig, mrtConfig, parseVars, shellVars>>

Next ==
  \/ CheckAvailable
  \/ LoadBaseDefault
  \/ LoadHostDefault
  \/ LoadInstance
  \/ LoadMrtSpecific
  \/ LoadMrtBase
  \/ Return

Spec == Init /\ [][Next]_vars


-----------------------------------------------------------------------------
(* Properties of PassSource.load (Spec)                                    *)

NonEmpty(o) == o # <<>> /\ o[1] # ""

\* The paths of the five kinds of entry for the current options.
ThePrefix == IF envPrefix = <<>> THEN "b2c-cli" ELSE envPrefix[1]

DefaultPath     == ThePrefix \o "/_default"
HostDefaultPath == ThePrefix \o "/_default/" \o options.accountManagerHost[1]
MobifyPath      == ThePrefix \o "/_mobify"

\* The instance: the option when it is provided, otherwise the variable.
TheInstance ==
  IF options.instance # <<>> THEN options.instance ELSE envInstance
InstancePath == ThePrefix \o "/" \o TheInstance[1]

\* The hostname of each cloudOrigin of CloudOriginOptions that is a URL.
OriginHostname ==
  IF options.cloudOrigin = <<"https://Cloud.Example.com:8443/api">>
  THEN <<"cloud.example.com">>
  ELSE <<>>

OriginIsUrl    == OriginHostname # <<>>
MobifyHostPath == ThePrefix \o "/_mobify/" \o OriginHostname[1]

Fetched(path) == \E i \in 1..Len(fetched) : fetched[i] = path
OutcomeOf(path) == responses[CHOOSE i \in 1..Len(fetched) : fetched[i] = path]

\* `pass show` exited zero / exited zero and printed something.
Found(path)    == Fetched(path) /\ OutcomeOf(path).exit = 0
FoundText(path) == Found(path) /\ OutcomeOf(path).stdout # ""

\* The config an entry contributes: what loadEntry returned for it.
EntryConfig(path) ==
  IF Fetched(path)
  THEN returned[CHOOSE i \in 1..Len(fetched) : fetched[i] = path]
  ELSE <<>>

Available == whichExit = 0
Done == pc = "done"

\* The four layers of the merge in precedence order, lowest first.
MrtLayer ==
  IF OriginIsUrl /\ FoundText(MobifyHostPath) THEN EntryConfig(MobifyHostPath)
  ELSE EntryConfig(MobifyPath)

Layers ==
  <<EntryConfig(DefaultPath),
    IF NonEmpty(options.accountManagerHost)
      THEN EntryConfig(HostDefaultPath) ELSE <<>>,
    MrtLayer,
    IF NonEmpty(TheInstance) THEN EntryConfig(InstancePath) ELSE <<>>>>

Defines(layer, f) == layer # <<>> /\ f \in DOMAIN layer[1]

\* C1: in the config load returns, every field has the value of the last
\* entry, in the order _default, _default/<host>, _mobify, instance, that
\* was loaded and defines it, and a field no loaded entry defines is absent.
C1_MergePrecedence ==
  (Done /\ result # <<>>) =>
    LET layers == Layers
        merged == result[1].config
    IN \A f \in NormalizedConfigFields \cup DOMAIN merged
                  \cup UNION {DOMAIN layers[i][1] :
                                i \in {j \in 1..4 : layers[j] # <<>>}} :
         LET definers == {i \in 1..4 : Defines(layers[i], f)} IN
         IF definers = {} THEN f \notin DOMAIN merged
         ELSE /\ f \in DOMAIN merged
              /\ merged[f] =
                   layers[CHOOSE i \in definers : \A j \in definers : j <= i][1][f]

\* An instance value overrides a different global one, the MRT layer's value
\* for the same field is overridden too, and a field only a lower layer
\* defines is kept.
C1_Witness ==
  /\ Done /\ result # <<>>
  /\ LET layers == Layers IN
     /\ \E f \in NormalizedConfigFields :
          /\ Defines(layers[1], f) /\ Defines(layers[3], f)
          /\ Defines(layers[4], f)
          /\ layers[4][1][f] # layers[1][1][f]
          /\ layers[4][1][f] # layers[3][1][f]
          /\ result[1].config[f] = layers[4][1][f]
     /\ \E g \in NormalizedConfigFields :
          /\ Defines(layers[3], g) /\ ~Defines(layers[4], g)
          /\ result[1].config[g] = layers[3][1][g]

\* The position of load after its instance step.
PastInstanceStep == pc \in {"mrtSpecific", "mrtBase", "merge", "done"}

\* The fetches that are neither a _default nor a _mobify lookup.
InstanceFetches ==
  {i \in 1..Len(fetched) :
     /\ fetched[i] # DefaultPath
     /\ fetched[i] # MobifyPath
     /\ ~(NonEmpty(options.accountManagerHost) /\ fetched[i] = HostDefaultPath)
     /\ ~(OriginIsUrl /\ fetched[i] = MobifyHostPath)}

\* C4: the instance whose entry is fetched is the option when it is provided
\* (not undefined), otherwise the SFCC_PASS_INSTANCE variable; when that
\* yields no instance (undefined or empty) no instance entry is fetched and
\* the result has the other entries only.
C4_InstancePriority ==
  (Available /\ PastInstanceStep) =>
    IF NonEmpty(TheInstance)
    THEN /\ \E i \in 1..Len(fetched) :
               InstanceFetches = {i} /\ fetched[i] = InstancePath
         /\ instanceConfig = EntryConfig(InstancePath)
    ELSE /\ InstanceFetches = {}
         /\ instanceConfig = <<>>
         /\ \A i \in 1..Len(locationParts) :
               locationParts[i] \in
                 {"pass:" \o DefaultPath, "pass:" \o MobifyPath}
                   \cup (IF NonEmpty(options.accountManagerHost)
                         THEN {"pass:" \o HostDefaultPath} ELSE {})
                   \cup (IF OriginIsUrl
                         THEN {"pass:" \o MobifyHostPath} ELSE {})
         /\ (Done /\ result # <<>>) =>
               \A f \in DOMAIN result[1].config :
                 \E layer \in {baseDefault, hostDefault, mrtConfig} :
                   Defines(layer, f) /\ layer[1][f] = result[1].config[f]

\* Both the option and the variable name an instance and the option's entry
\* was the one fetched.
C4_Witness ==
  /\ Done
  /\ options.instance = <<"staging">> /\ envInstance = <<"prod">>
  /\ Fetched(ThePrefix \o "/staging") /\ ~Fetched(ThePrefix \o "/prod")

\* C5: when `pass` is not available, no `pass show` is run and load returns
\* undefined, whatever the options.
C5_UnavailableNoFetch ==
  whichExit # 0 =>
    /\ fetched = <<>>
    /\ pc \in {"start", "done"}
    /\ result = <<>>

C5_Witness ==
  /\ Done /\ whichExit # 0
  /\ NonEmpty(options.instance) /\ NonEmpty(options.accountManagerHost)
  /\ OriginIsUrl

\* The paths found / found with a non-empty text, in fetch order.
FoundPaths ==
  SelectSeq(fetched, LAMBDA p : Found(p))
LoadedPaths ==
  SelectSeq(fetched, LAMBDA p : FoundText(p))

\* C6 (as claimed): load returns undefined exactly when no queried entry
\* was found, `pass show` exiting non-zero being what not found means.
C6_UndefinedIffNothingFound ==
  (Done /\ Available) => (result = <<>> <=> FoundPaths = <<>>)

\* C6 (amended): an entry that is not found, or whose text is empty, is
\* absent and never ends the load: _default is always fetched first and an
\* _mobify entry last, load returns undefined exactly when no queried entry
\* was found with a non-empty text, and otherwise a result whose location
\* lists the entries so found.
C6_UndefinedIffNothingLoaded ==
  (Done /\ Available) =>
    /\ Len(fetched) >= 2
    /\ fetched[1] = DefaultPath
    /\ fetched[Len(fetched)] \in
         {MobifyPath} \cup (IF OriginIsUrl THEN {MobifyHostPath} ELSE {})
    /\ \A i \in 1..Len(fetched) :
         returned[i] = <<>> <=>
           (responses[i].exit # 0 \/ responses[i].stdout = "")
    /\ result = <<>> <=> LoadedPaths = <<>>
    /\ result # <<>> =>
         /\ locationParts = [i \in 1..Len(LoadedPaths) |-> "pass:" \o LoadedPaths[i]]
         /\ result[1].location = Join(locationParts, ",")

\* _default is not found, a later entry is, and load returns a result.
C6_Witness ==
  /\ Done /\ Available
  /\ ~Found(DefaultPath)
  /\ \E i \in 2..Len(fetched) : FoundText(fetched[i])
  /\ result # <<>>
  /\ DOMAIN result[1].config # {}

\* C7 (as claimed): the MRT layer comes from the cloud-origin-specific entry
\* alone when cloudOrigin is a URL and that entry is found, the base entry
\* then not being fetched; in every other case it comes from the base entry.
C7_MrtFromOneEntry ==
  (Done /\ Available) =>
    IF OriginIsUrl /\ Found(MobifyHostPath)
    THEN ~Fetched(MobifyPath) /\ mrtConfig = EntryConfig(MobifyHostPath)
    ELSE Fetched(MobifyPath) /\ mrtConfig = EntryConfig(MobifyPath)

\* C7 (amended): as claimed, an entry counting as found when `pass show`
\* exits zero with a non-empty text; a cloudOrigin that is no URL leads to
\* the base entry.
C7_MrtFromOneLoadedEntry ==
  (Done /\ Available) =>
    /\ IF OriginIsUrl /\ FoundText(MobifyHostPath)
       THEN ~Fetched(MobifyPath) /\ mrtConfig = EntryConfig(MobifyHostPath)
       ELSE Fetched(MobifyPath) /\ mrtConfig = EntryConfig(MobifyPath)
    /\ ~OriginIsUrl =>
         \A i \in 1..Len(fetched) :
            ~(/\ Len(fetched[i]) > Len(MobifyPath)
              /\ SubSeq(fetched[i], 1, Len(MobifyPath) + 1) = MobifyPath \o "/")

\* The specific entry supplies the layer although the base entry would have
\* been found in no fetch; and a cloudOrigin that is no URL ends in the base.
C7_Witness ==
  /\ Done /\ Available
  /\ OriginIsUrl /\ FoundText(MobifyHostPath) /\ ~Fetched(MobifyPath)
  /\ mrtConfig # <<>> /\ "mrtApiKey" \in DOMAIN mrtConfig[1]
  /\ result # <<>> /\ "mrtApiKey" \in DOMAIN result[1].config

\* The fetches load makes, in order, `specificFound` telling whether the
\* cloud-origin-specific entry counts as found.
ExpectedFetches(specificFound) ==
  <<DefaultPath>>
    \o (IF NonEmpty(options.accountManagerHost) THEN <<HostDefaultPath>> ELSE <<>>)
    \o (IF NonEmpty(TheInstance) THEN <<InstancePath>> ELSE <<>>)
    \o (IF OriginIsUrl THEN <<MobifyHostPath>> ELSE <<>>)
    \o (IF OriginIsUrl /\ specificFound THEN <<>> ELSE <<MobifyPath>>)

IsPrefix(a, b) == Len(a) <= Len(b) /\ a = SubSeq(b, 1, Len(a))

LoadStages ==
  {"start", "baseDefault", "hostDefault", "instance", "mrtSpecific",
   "mrtBase", "merge", "done"}

-----------------------------------------------------------------------------
(* SpecParse: parsePassEntry, then mapToNormalizedConfig, on entry texts   *)
(* of up to MaxLines lines.                                                *)

MaxLines == 3

\* The lines entry texts are made of: first lines (empty, blank, a secret,
\* a padded secret) and `key: value` lines with supported keys in several
\* spellings, unsupported keys, and malformed pairs.
EntryLines ==
  {"", " ", "pwA", " pw B\r",
   "password: X", "PASSWORD: Y", "_password: Z",
   "client-id: c1", "Client-Id :c2", "scopes: a, b,,c",
   "hostname: h:1", "zz: v", "novalue:", ": nokey",
   "constructor: q", "__PROTO__: p"}

EntryTexts ==
  {Join(ls, "\n") : ls \in UNION {[1..n -> EntryLines] : n \in 1..MaxLines}}

InitParse ==
  /\ ppc = "start"
  /\ content \in EntryTexts
  /\ parsed = EmptyObject
  /\ config = EmptyConfig
  /\ LoadIdle
  /\ ShellIdle

Parse ==
  /\ ppc = "start"
  /\ parsed' = parsePassEntry(content)
  /\ ppc' = "parsed"
  /\ UNCHANGED <<content, config, loadVars, shellVars>>

Map ==
  /\ ppc = "parsed"
  /\ config' = mapToNormalizedConfig(parsed)
  /\ ppc' = "mapped"
  /\ UNCHANGED <<content, parsed, loadVars, shellVars>>

NextParse == Parse \/ Map

SpecParse == InitParse /\ [][NextParse]_vars

\* ---- how a `key: value` line reads, independently of the parser
ContentLines == Split(content, "\n")

IsKeyValueLine(l) ==
  LET i == IndexOf(l, ":") IN
  /\ i > 0
  /\ Trim(Slice(l, 0, i)) # ""
  /\ Trim(SliceFrom(l, i + 1)) # ""

LineKey(l)   == Trim(Slice(l, 0, IndexOf(l, ":")))
LineValue(l) == Trim(SliceFrom(l, IndexOf(l, ":") + 1))

\* The lines after the first that are `key: value` pairs.
PairLines == {i \in 2..Len(ContentLines) : IsKeyValueLine(ContentLines[i])}

\* C2 (as claimed): when the first line is empty and every following line
\* is a `key: value` pair, the parsed entry has no _password and has every
\* one of those keys.
C2_EmptyFirstLineKeepsPairs ==
  (/\ ppc # "start"
   /\ ContentLines[1] = ""
   /\ Len(ContentLines) >= 2
   /\ PairLines = 2..Len(ContentLines))
  => (/\ ~HasOwn(parsed, "_password")
      /\ \A i \in PairLines : HasOwn(parsed, LineKey(ContentLines[i])))

\* C3 (as claimed): with a non-empty first line P, the mapped password is X
\* when a later line is `password: X` (the one line with that key), and is
\* P when no later line has the key `password`.
PasswordLines ==
  {i \in PairLines : ToLowerCase(LineKey(ContentLines[i])) = "password"}

C3_PasswordKeyOverridesFirstLine ==
  (ppc = "mapped" /\ Trim(ContentLines[1]) # "")
  => (/\ \A i \in PasswordLines :
            PasswordLines = {i} =>
              /\ "password" \in DOMAIN config
              /\ config["password"] = LineValue(ContentLines[i])
      /\ PasswordLines = {} =>
              /\ "password" \in DOMAIN config
              /\ config["password"] = Trim(ContentLines[1]))

\* C10 (as claimed): after a non-empty first line, a `key: value` line sets
\* field F exactly when its lowercased key is F's pass key, and every key of
\* the mapped config is a NormalizedConfig field.
C10_OnlySupportedKeysMapped ==
  (ppc = "mapped" /\ Trim(ContentLines[1]) # "")
  => (/\ \A i \in PairLines :
            LET k == ToLowerCase(LineKey(ContentLines[i])) IN
            k \in DOMAIN FIELD_MAP => FIELD_MAP[k] \in DOMAIN config
      /\ \A f \in (DOMAIN config) \ {"password"} :
            \E i \in PairLines :
               LET k == ToLowerCase(LineKey(ContentLines[i])) IN
               k \in DOMAIN FIELD_MAP /\ FIELD_MAP[k] = f
      /\ DOMAIN config \subseteq NormalizedConfigFields)


-----------------------------------------------------------------------------
(* SpecShell: getEntry's command line for paths of up to MaxArgLen         *)
(* characters                                                              *)

MaxArgLen == 4

ArgChars == {"a", "'", "\\", " ", ";"}

RECURSIVE Concat(_)
Concat(chars) ==
  IF Len(chars) = 0 THEN "" ELSE Head(chars) \o Concat(Tail(chars))

ArgStrings ==
  {Concat(cs) : cs \in UNION {[1..n -> ArgChars] : n \in 0..MaxArgLen}}

InitShell ==
  /\ spc = "start"
  /\ arg \in ArgStrings
  /\ escaped = ""
  /\ command = ""
  /\ argv = Undefined
  /\ LoadIdle
  /\ ParseIdle

Escape ==
  /\ spc = "start"
  /\ escaped' = escapeShellArg(arg)
  /\ spc' = "escaped"
  /\ UNCHANGED <<arg, command, argv, loadVars, parseVars>>

Build ==
  /\ spc = "escaped"
  /\ command' = PassShowCommand(escaped)
  /\ spc' = "built"
  /\ UNCHANGED <<arg, escaped, argv, loadVars, parseVars>>

Run ==
  /\ spc = "built"
  /\ argv' = ShellCommands(command)
  /\ spc' = "run"
  /\ UNCHANGED <<arg, escaped, command, loadVars, parseVars>>

NextShell == Escape \/ Build \/ Run

SpecShell == InitShell /\ [][NextShell]_vars

\* C8: for every path, quotes included, sh reads the command getEntry
\* builds as the single command `pass show` with one argument, which is
\* exactly the path.
C8_OneArgumentExactlyPath ==
  spc = "run" => argv = << << <<"pass", "show", arg>> >> >>

\* A path holding a quote, a blank and a semicolon went through the shell.
C8_Witness ==
  /\ spc = "run"
  /\ \E i, j, k \in 1..Len(arg) :
       CharAt(arg, i) = "'" /\ CharAt(arg, j) = ";" /\ CharAt(arg, k) = " "
  /\ argv # <<>>
  /\ argv[1][1][3] = arg


====
